---- MODULE Spec2Model ----
(***************************************************************************)
(* prun: a parameter-sweep command runner (src/src/main.rs).               *)
(*                                                                         *)
(* Two parts of the program are modelled:                                  *)
(*   - Task::to_concreate_tasks, the expansion of a task into the cross    *)
(*     product of its arguments (operators p, ChoiceLoop, IntLoop);        *)
(*   - main: building the queue, sizing and spawning the worker pool, the  *)
(*     worker loop (lock, pop_front, drop, spawn, wait, write, flush) and  *)
(*     the joining of the workers.                                         *)
(*                                                                         *)
(* A Rust String is a sequence of one-character strings, so that pushing   *)
(* and formatting are concatenations the checks can tell apart.            *)
(* RangeObject::Float is left out of the input domain: every range of the  *)
(* model deserialises as RangeObject::Int.                                 *)
(*                                                                         *)
(* Spec runs the whole of main on a few configurations; SpecExpand applies *)
(* the expansion alone to a large family of tasks.                         *)
(***************************************************************************)
EXTENDS Integers, Sequences, FiniteSets, TLC

VARIABLES
    config,          \* Tasks: the decoded configuration, task name -> Task
    opt,             \* Opt: num_threads (<<>> is None, <<k>> is Some(k)), output
    num_cpus,        \* what num_cpus::get() returns
    overflow_checks, \* build profile: TRUE panics on i32 overflow, FALSE wraps
    main,            \* position of the main thread
    tasks,           \* the VecDeque<Cmd> behind Arc<Mutex<..>>
    n,               \* the pool size computed at lines 207-210
    handles,         \* number of worker threads spawned so far
    joined,          \* number of handles joined so far
    wpc,             \* position of each worker thread
    wtask,           \* each worker's local `task` (<<>> is None, <<cmd>> is Some)
    tasksLock,       \* holder of the tasks mutex, 0 when free
    outLock,         \* holder of the output mutex, 0 when free
    outPoisoned,     \* the output mutex was held by a thread that panicked
    child,           \* each worker's child process: "none", "running", "exited"
    buf,             \* bytes held by the BufWriter, as a sequence of characters
    file,            \* bytes that reached the output file
    popped,          \* history: how many times pop_front returned each invocation id
    failed,          \* history: the set of invocation ids whose spawn or wait failed
    built,           \* history: the queue as collected at line 205
    pending,         \* history: ids whose child.wait() returned Ok and whose worker has
                     \* not left the output section yet, in the order wait returned
    written          \* history: invocation ids in the order writeln! ran at line 274

vars == <<config, opt, num_cpus, overflow_checks, main, tasks, n, handles, joined,
          wpc, wtask, tasksLock, outLock, outPoisoned, child, buf, file, popped,
          failed, built, pending, written>>

----------------------------------------------------------------------------
(* Bounds of the model and constants of the program.                       *)

MaxArgs == 3        \* longest argument list of the multi-argument tasks
RangeHi == 3        \* from and to of the range grid are drawn from -1..RangeHi
MaxStep == 2        \* step of the range grid is drawn from -1..MaxStep
MaxThreads == 2     \* --num-threads is drawn from None and 0..MaxThreads
MaxCpus == 4        \* num_cpus::get() is drawn from 1..MaxCpus

I32Max == 2147483647
I32Min == -I32Max - 1

\* No well-formed range of the input domain takes more iterations than this;
\* a loop that is still running after MaxIter iterations is reported "unbounded".
MaxIter == RangeHi + 3

----------------------------------------------------------------------------
(* Strings and formatting.                                                 *)

DigitChar(d) == <<"0", "1", "2", "3", "4", "5", "6", "7", "8", "9">>[d + 1]

RECURSIVE NatDigits(_)
\* decimal digits of a non-positive number's magnitude, most significant first
NatDigits(m) ==
    LET d == (10 - (m % 10)) % 10
        rest == (m + d) \div 10
    IN  IF rest = 0 THEN <<DigitChar(d)>> ELSE NatDigits(rest) \o <<DigitChar(d)>>

\* format!("{}", c) for an i32
FormatInt(c) == IF c < 0 THEN <<"-">> \o NatDigits(c) ELSE NatDigits(-c)

\* prefix.as_ref().unwrap_or(&String::new())
UnwrapOrEmpty(prefix) == IF prefix = <<>> THEN <<>> ELSE prefix[1]

----------------------------------------------------------------------------
(* The data model: Argument, RangeObject::Int, Task, Cmd.                  *)

Static(s) ==
    [type |-> "Static", str |-> s, opts |-> <<>>,
     from |-> 0, to |-> 0, step |-> 0, prefix |-> <<>>]

Choice(values) ==
    [type |-> "Choice", str |-> <<>>, opts |-> values,
     from |-> 0, to |-> 0, step |-> 0, prefix |-> <<>>]

Range(from, to, step, prefix) ==
    [type |-> "Range", str |-> <<>>, opts |-> <<>>,
     from |-> from, to |-> to, step |-> step, prefix |-> prefix]

Task(command, args) == [command |-> command, args |-> args]

\* The invocation as the worker sees it: the Command (program and argv) and the
\* display name. id is a history field: the position in the queue as built.
Cmd(command, args, name) == [command |-> command, args |-> args, name |-> name, id |-> 0]

----------------------------------------------------------------------------
(* Task::to_concreate_tasks (lines 42-136).                                *)

\* One entry of `res`: (so_far, so_far_name)
Entry(so_far, so_far_name) == <<so_far, so_far_name>>

\* A faulty variant: the token is put in front of the tokens so far
PushTokenFront(so_far, token) == <<token>> \o so_far

\* lines 63-64 and 82-87: sf = so_far.clone(); sf.push(token)
PushToken(so_far, token) == Append(so_far, token)

\* A faulty variant: sfn.push(' ') is left out
PushNameNoSpace(so_far_name, s) == so_far_name \o s

\* lines 66-68 and 89-91: sfn = so_far_name.clone(); sfn.push(' '); sfn.push_str(s)
PushName(so_far_name, s) == so_far_name \o <<" ">> \o s

\* lines 83-87: format!("{}{}", prefix.as_ref().unwrap_or(&String::new()), c)
RangeToken(prefix, c) == UnwrapOrEmpty(prefix) \o FormatInt(c)

\* line 81: the loop condition `c <= *to`
RangeCond(c, to) == c <= to

\* line 94: whether `c += *step` leaves the i32 range
AddOverflows(c, step) ==
    \/ step > 0 /\ c > I32Max - step
    \/ step < 0 /\ c < I32Min - step

\* line 94: `c += *step` as two's complement wrapping addition
WrappingAdd(c, step) ==
    IF ~AddOverflows(c, step) THEN c + step
    ELSE IF step > 0 THEN (c + I32Min) + (step + I32Min)
    ELSE (c - I32Min) + (step - I32Min)

\* The result of a (partial) run of p: what was pushed on `res`, and how the run
\* ended: "ok" (returned), "overflow" (panic: attempt to add with overflow),
\* "unbounded" (a range loop still running after MaxIter iterations).
Ran(res, halt) == [res |-> res, halt |-> halt]

RECURSIVE p(_, _, _)
RECURSIVE ChoiceLoop(_, _, _, _, _)
RECURSIVE IntLoop(_, _, _, _, _, _)

\* lines 62-71: for opt in opts { ... p(&args[1..], sf, sfn, res) }, from index i
ChoiceLoop(opts, i, rest, so_far, so_far_name) ==
    IF i > Len(opts) THEN Ran(<<>>, "ok")
    ELSE LET sub == p(rest, PushToken(so_far, opts[i]), PushName(so_far_name, opts[i]))
         IN  IF sub.halt # "ok" THEN sub
             ELSE LET more == ChoiceLoop(opts, i + 1, rest, so_far, so_far_name)
                  IN  Ran(sub.res \o more.res, more.halt)

\* lines 80-95: let mut c = *from; while c <= *to { ...; c += *step }, from value c
IntLoop(range, c, rest, so_far, so_far_name, fuel) ==
    IF ~RangeCond(c, range.to) THEN Ran(<<>>, "ok")
    ELSE IF fuel = 0 THEN Ran(<<>>, "unbounded")
    ELSE LET sub == p(rest, PushToken(so_far, RangeToken(range.prefix, c)),
                      PushName(so_far_name, FormatInt(c)))
         IN  IF sub.halt # "ok" THEN sub
             ELSE IF AddOverflows(c, range.step) /\ overflow_checks
                  THEN Ran(sub.res, "overflow")
             ELSE LET more == IntLoop(range, WrappingAdd(c, range.step), rest,
                                      so_far, so_far_name, fuel - 1)
                  IN  Ran(sub.res \o more.res, more.halt)

\* lines 45-122: fn p(args, so_far, so_far_name, res)
p(args, so_far, so_far_name) ==
    IF args = <<>> THEN Ran(<<Entry(so_far, so_far_name)>>, "ok")
    ELSE LET a == Head(args)
             rest == Tail(args)
         IN  CASE a.type = "Static" -> p(rest, PushToken(so_far, a.str), so_far_name)
               [] a.type = "Choice" -> ChoiceLoop(a.opts, 1, rest, so_far, so_far_name)
               [] a.type = "Range" ->
                      IntLoop(a, a.from, rest, so_far, so_far_name, MaxIter)

\* lines 126-135: res.into_iter().map(|(args, name)| Cmd { command, name }).collect()
ToCmds(command, res) ==
    [i \in 1..Len(res) |-> Cmd(command, res[i][1], res[i][2])]

\* lines 42-136: fn to_concreate_tasks(&self, name: &str) -> Vec<Cmd>
to_concreate_tasks(task, name) ==
    LET ran == p(task.args, <<>>, name)
    IN  Ran(ToCmds(task.command, ran.res), ran.halt)

----------------------------------------------------------------------------
(* main: building the queue and sizing the pool (lines 198-236).           *)

\* n is at most the larger of the largest --num-threads and the largest default
MaxWorkers == IF MaxThreads >= MaxCpus \div 2 THEN MaxThreads ELSE MaxCpus \div 2
Workers == 1..MaxWorkers

\* The orders in which a HashMap with key set S may be iterated
Orders(S) ==
    {o \in [1..Cardinality(S) -> S] : \A i, j \in DOMAIN o : i # j => o[i] # o[j]}

RECURSIVE Flatten(_)
\* line 204: .flatten() over the per-task vectors
Flatten(vecs) == IF vecs = <<>> THEN <<>> ELSE Head(vecs) \o Flatten(Tail(vecs))

\* history: number the invocations by their position in the queue as built
Numbered(cmds) == [i \in 1..Len(cmds) |-> [cmds[i] EXCEPT !.id = i]]

\* lines 198-205: tasks.into_iter().map(to_concreate_tasks).flatten().collect(),
\* the map iterated in the order `order`
ExpandAll(order) ==
    LET runs == [i \in 1..Len(order) |-> to_concreate_tasks(config[order[i]], order[i])]
        bad == {i \in 1..Len(order) : runs[i].halt # "ok"}
    IN  IF bad = {} THEN Ran(Flatten([i \in 1..Len(order) |-> runs[i].res]), "ok")
        ELSE Ran(<<>>, runs[CHOOSE i \in bad : \A j \in bad : i <= j].halt)

\* lines 207-210: opt.num_threads.unwrap_or(num_cpus::get() / 2).min(tasks.len())
Min(a, b) == IF a <= b THEN a ELSE b
UnwrapOr(option, default) == IF option = <<>> THEN default ELSE option[1]
\* A faulty variant: .min(tasks.len()) is left out
PoolSizeNoMin(num_threads, cpus, len) == UnwrapOr(num_threads, cpus \div 2)

PoolSize(num_threads, cpus, len) == Min(UnwrapOr(num_threads, cpus \div 2), len)

\* The process is running: main has neither returned nor panicked. When the main
\* thread ends, the process exits and every worker thread ends with it.
Alive == main \notin {"done", "panicked", "returned"}

\* lines 198-205: the queue is built from the expansion of every task. An overflow
\* panic in an expansion ends main; an expansion that does not return keeps main
\* in it ("expanding").
BuildQueue ==
    /\ main = "start"
    /\ \E order \in Orders(DOMAIN config) :
          LET ran == ExpandAll(order)
          IN  /\ tasks' = Numbered(ran.res)
              /\ popped' = [i \in 1..Len(ran.res) |-> 0]
              /\ built' = Numbered(ran.res)
              /\ main' = CASE ran.halt = "ok" -> "queued"
                           [] ran.halt = "overflow" -> "panicked"
                           [] ran.halt = "unbounded" -> "expanding"
    /\ UNCHANGED <<pending, written, config, opt, num_cpus, overflow_checks, n, handles, joined, wpc,
                   wtask, tasksLock, outLock, outPoisoned, child, buf, file, failed>>

\* lines 207-210: let n = ...
ComputeN ==
    /\ main = "queued"
    /\ n' = PoolSize(opt.num_threads, num_cpus, Len(tasks))
    /\ main' = "sized"
    /\ UNCHANGED <<built, pending, written, config, opt, num_cpus, overflow_checks, tasks, handles, joined, wpc,
                   wtask, tasksLock, outLock, outPoisoned, child, buf, file, popped,
                   failed>>

\* lines 212-236: the output file is opened (or not asked for); on an open error
\* main prints a diagnostic and returns
OpenOutput ==
    /\ main = "sized"
    /\ main' = IF n = 0 THEN "joining" ELSE "spawning"
    /\ UNCHANGED <<built, pending, written, config, opt, num_cpus, overflow_checks, tasks, n, handles, joined,
                   wpc, wtask, tasksLock, outLock, outPoisoned, child, buf, file,
                   popped, failed>>

OpenOutputFails ==
    /\ main = "sized"
    /\ opt.output
    /\ main' = "returned"
    /\ UNCHANGED <<built, pending, written, config, opt, num_cpus, overflow_checks, tasks, n, handles, joined,
                   wpc, wtask, tasksLock, outLock, outPoisoned, child, buf, file,
                   popped, failed>>

\* lines 240-285: one iteration of `for i in 0..n`: std::thread::spawn
SpawnWorker ==
    /\ main = "spawning"
    /\ handles < n
    /\ handles' = handles + 1
    /\ wpc' = [wpc EXCEPT ![handles + 1] = "lock"]
    /\ main' = IF handles + 1 = n THEN "joining" ELSE "spawning"
    /\ UNCHANGED <<built, pending, written, config, opt, num_cpus, overflow_checks, tasks, n, joined, wtask,
                   tasksLock, outLock, outPoisoned, child, buf, file, popped, failed>>

\* Every worker thread has ended, and with it its clone of the output Arc
AllEnded == \A w \in 1..handles : wpc[w] \in {"done", "panicked"}

\* The last Arc of the output goes: the BufWriter is dropped, and its drop tries to
\* write the bytes it still holds; k of them reach the file
DropWriter(k) ==
    /\ file' = file \o SubSeq(buf, 1, k)
    /\ buf' = SubSeq(buf, k + 1, Len(buf))

\* lines 287-289: handle.join().unwrap() on the next handle: blocks until that
\* worker has ended, and panics if it ended by a panic. The panic unwinds main
\* and drops its output Arc; the process then exits.
Join ==
    /\ main = "joining"
    /\ joined < n
    /\ wpc[joined + 1] \in {"done", "panicked"}
    /\ IF wpc[joined + 1] = "done"
       THEN joined' = joined + 1 /\ main' = main /\ UNCHANGED <<buf, file>>
       ELSE /\ joined' = joined
            /\ main' = "panicked"
            /\ IF AllEnded
               THEN \E k \in 0..Len(buf) : DropWriter(k)
               ELSE UNCHANGED <<buf, file>>
    /\ UNCHANGED <<built, pending, written, config, opt, num_cpus, overflow_checks, tasks, n, handles, wpc,
                   wtask, tasksLock, outLock, outPoisoned, child, popped, failed>>

\* line 290: every handle is joined and main returns, dropping the output
Finish ==
    /\ main = "joining"
    /\ joined = n
    /\ main' = "done"
    /\ \E k \in 0..Len(buf) : DropWriter(k)
    /\ UNCHANGED <<built, pending, written, config, opt, num_cpus, overflow_checks, tasks, n, handles, joined,
                   wpc, wtask, tasksLock, outLock, outPoisoned, child, popped, failed>>

----------------------------------------------------------------------------
(* The worker loop (lines 243-282), one action per statement.              *)

\* The elapsed time t1 - t0 as {:?} prints it; its value is the environment's
DurationText == <<"d">>

\* A faulty variant: write! in place of writeln!, the line is not ended
ResultLineNoNewline(name) == name \o <<":", " ">> \o DurationText

\* line 274: the bytes of writeln!(output, "{}: {:?}", name, t1 - t0)
ResultLine(name) == name \o <<":", " ">> \o DurationText \o <<"\n">>

\* A faulty variant: lock.front().cloned() instead of pop_front(): the queue keeps the element
PopFrontKeeps(queue) ==
    IF queue = <<>> THEN <<(<<>>), queue>> ELSE <<(<<Head(queue)>>), queue>>

\* A faulty variant: pop_back() instead of pop_front()
PopBack(queue) ==
    IF queue = <<>> THEN <<(<<>>), queue>>
    ELSE <<(<<queue[Len(queue)]>>), SubSeq(queue, 1, Len(queue) - 1)>>

\* line 250: lock.pop_front(), as <<the Option returned, the queue left>>
PopFront(queue) ==
    IF queue = <<>> THEN <<(<<>>), queue>> ELSE <<(<<Head(queue)>>), Tail(queue)>>

\* line 249: tasks.lock().unwrap() (the tasks mutex is never poisoned: no
\* statement that can panic runs while it is held)
LockTasks(w) ==
    /\ Alive /\ wpc[w] = "lock"
    /\ tasksLock = 0
    /\ tasksLock' = w
    /\ wpc' = [wpc EXCEPT ![w] = "pop"]
    /\ UNCHANGED <<built, pending, written, config, opt, num_cpus, overflow_checks, main, tasks, n, handles,
                   joined, wtask, outLock, outPoisoned, child, buf, file, popped,
                   failed>>

\* line 250: let task = lock.pop_front()
Pop(w) ==
    /\ Alive /\ wpc[w] = "pop"
    /\ LET r == PopFront(tasks)
       IN  /\ wtask' = [wtask EXCEPT ![w] = r[1]]
           /\ tasks' = r[2]
           /\ popped' = IF r[1] = <<>> THEN popped
                        ELSE [popped EXCEPT ![r[1][1].id] = @ + 1]
    /\ wpc' = [wpc EXCEPT ![w] = "drop"]
    /\ UNCHANGED <<built, pending, written, config, opt, num_cpus, overflow_checks, main, n, handles, joined,
                   tasksLock, outLock, outPoisoned, child, buf, file, failed>>

\* A faulty variant: drop(lock) is left out, the guard outlives the pop
DropLockKept(w) ==
    /\ Alive /\ wpc[w] = "drop"
    /\ tasksLock' = tasksLock
    /\ wpc' = [wpc EXCEPT ![w] = IF wtask[w] = <<>> THEN "done" ELSE "spawn"]
    /\ UNCHANGED <<built, pending, written, config, opt, num_cpus, overflow_checks, main, tasks, n, handles,
                   joined, wtask, outLock, outPoisoned, child, buf, file, popped,
                   failed>>

\* lines 251-253 and 278-280: drop(lock); if let Some(task) = task {..} else {break}
DropLock(w) ==
    /\ Alive /\ wpc[w] = "drop"
    /\ tasksLock' = IF tasksLock = w THEN 0 ELSE tasksLock
    /\ wpc' = [wpc EXCEPT ![w] = IF wtask[w] = <<>> THEN "done" ELSE "spawn"]
    /\ UNCHANGED <<built, pending, written, config, opt, num_cpus, overflow_checks, main, tasks, n, handles,
                   joined, wtask, outLock, outPoisoned, child, buf, file, popped,
                   failed>>

\* A faulty variant: child.wait() is left out, the worker goes on at once
SpawnOkNoWait(w) ==
    /\ Alive /\ wpc[w] = "spawn"
    /\ child' = [child EXCEPT ![w] = "running"]
    /\ wpc' = [wpc EXCEPT ![w] = "outlock"]
    /\ UNCHANGED <<built, pending, written, config, opt, num_cpus, overflow_checks, main, tasks, n, handles,
                   joined, wtask, tasksLock, outLock, outPoisoned, buf, file, popped,
                   failed>>

\* line 258: command.spawn() returns Ok(child)
SpawnOk(w) ==
    /\ Alive /\ wpc[w] = "spawn"
    /\ child' = [child EXCEPT ![w] = "running"]
    /\ wpc' = [wpc EXCEPT ![w] = "wait"]
    /\ UNCHANGED <<built, pending, written, config, opt, num_cpus, overflow_checks, main, tasks, n, handles,
                   joined, wtask, tasksLock, outLock, outPoisoned, buf, file, popped,
                   failed>>

\* line 258: command.spawn() returns Err, and unwrap() panics: the thread ends
SpawnErr(w) ==
    /\ Alive /\ wpc[w] = "spawn"
    /\ wpc' = [wpc EXCEPT ![w] = "panicked"]
    /\ failed' = failed \cup {wtask[w][1].id}
    /\ UNCHANGED <<built, pending, written, config, opt, num_cpus, overflow_checks, main, tasks, n, handles,
                   joined, wtask, tasksLock, outLock, outPoisoned, child, buf, file,
                   popped>>

\* the environment: the child process of worker w exits
ChildExit(w) ==
    /\ child[w] = "running"
    /\ child' = [child EXCEPT ![w] = "exited"]
    /\ UNCHANGED <<built, pending, written, config, opt, num_cpus, overflow_checks, main, tasks, n, handles,
                   joined, wpc, wtask, tasksLock, outLock, outPoisoned, buf, file,
                   popped, failed>>

\* s with every occurrence of x taken out
Without(s, x) == SelectSeq(s, LAMBDA y : y # x)

\* line 260: child.wait() returns Ok once the child has exited; the worker now
\* has a result to submit
WaitOk(w) ==
    /\ Alive /\ wpc[w] = "wait"
    /\ child[w] = "exited"
    /\ child' = [child EXCEPT ![w] = "none"]
    /\ pending' = Append(pending, wtask[w][1].id)
    /\ wpc' = [wpc EXCEPT ![w] = "outlock"]
    /\ UNCHANGED <<built, written, config, opt, num_cpus, overflow_checks, main, tasks, n, handles,
                   joined, wtask, tasksLock, outLock, outPoisoned, buf, file, popped,
                   failed>>

\* line 260: child.wait() returns Err, and unwrap() panics: the thread ends
WaitErr(w) ==
    /\ Alive /\ wpc[w] = "wait"
    /\ wpc' = [wpc EXCEPT ![w] = "panicked"]
    /\ failed' = failed \cup {wtask[w][1].id}
    /\ UNCHANGED <<built, pending, written, config, opt, num_cpus, overflow_checks, main, tasks, n, handles,
                   joined, wtask, tasksLock, outLock, outPoisoned, child, buf, file,
                   popped>>

\* lines 271-273: output.lock(). On a poisoned mutex lock() returns Err, which
\* still holds the guard, and the write is skipped; so it is when output is None.
LockOutput(w) ==
    /\ Alive /\ wpc[w] = "outlock"
    /\ outLock = 0
    /\ outLock' = w
    /\ wpc' = [wpc EXCEPT ![w] = IF ~outPoisoned /\ opt.output THEN "write" ELSE "unlock"]
    /\ UNCHANGED <<built, pending, written, config, opt, num_cpus, overflow_checks, main, tasks, n, handles,
                   joined, wtask, tasksLock, outPoisoned, child, buf, file, popped,
                   failed>>

\* line 274: writeln!(output, ..) copies the line into the BufWriter's buffer
WriteLine(w) ==
    /\ Alive /\ wpc[w] = "write"
    /\ buf' = buf \o ResultLine(wtask[w][1].name)
    /\ written' = Append(written, wtask[w][1].id)
    /\ wpc' = [wpc EXCEPT ![w] = "flush"]
    /\ UNCHANGED <<built, pending, config, opt, num_cpus, overflow_checks, main, tasks, n, handles,
                   joined, wtask, tasksLock, outLock, outPoisoned, child, file, popped,
                   failed>>

\* A faulty variant: the flushed bytes are put before the file's contents
FlushOkFront(w) ==
    /\ Alive /\ wpc[w] = "flush"
    /\ file' = buf \o file
    /\ buf' = <<>>
    /\ wpc' = [wpc EXCEPT ![w] = "unlock"]
    /\ UNCHANGED <<built, pending, written, config, opt, num_cpus, overflow_checks, main, tasks, n, handles,
                   joined, wtask, tasksLock, outLock, outPoisoned, child, popped,
                   failed>>

\* line 275: output.flush() returns Ok: the buffered bytes reach the file
FlushOk(w) ==
    /\ Alive /\ wpc[w] = "flush"
    /\ file' = file \o buf
    /\ buf' = <<>>
    /\ wpc' = [wpc EXCEPT ![w] = "unlock"]
    /\ UNCHANGED <<built, pending, written, config, opt, num_cpus, overflow_checks, main, tasks, n, handles,
                   joined, wtask, tasksLock, outLock, outPoisoned, child, popped,
                   failed>>

\* line 275: output.flush() returns Err after k of the buffered bytes were
\* written, and unwrap() panics while the guard is held: the mutex is poisoned
FlushErr(w) ==
    /\ Alive /\ wpc[w] = "flush"
    /\ \E k \in 0..(Len(buf) - 1) :
          /\ file' = file \o SubSeq(buf, 1, k)
          /\ buf' = SubSeq(buf, k + 1, Len(buf))
    /\ outPoisoned' = TRUE
    /\ outLock' = 0
    /\ pending' = Without(pending, wtask[w][1].id)
    /\ wpc' = [wpc EXCEPT ![w] = "panicked"]
    /\ UNCHANGED <<built, written, config, opt, num_cpus, overflow_checks, main, tasks, n, handles,
                   joined, wtask, tasksLock, child, popped, failed>>

\* lines 277-281: the guard goes out of scope and the loop starts over
UnlockOutput(w) ==
    /\ Alive /\ wpc[w] = "unlock"
    /\ outLock' = IF outLock = w THEN 0 ELSE outLock
    /\ pending' = Without(pending, wtask[w][1].id)
    /\ wtask' = [wtask EXCEPT ![w] = <<>>]
    /\ wpc' = [wpc EXCEPT ![w] = "lock"]
    /\ UNCHANGED <<built, written, config, opt, num_cpus, overflow_checks, main, tasks, n, handles,
                   joined, tasksLock, outPoisoned, child, buf, file, popped, failed>>

----------------------------------------------------------------------------
(* Inputs and specifications.                                              *)

a == <<"a">>
b == <<"b">>

\* The configurations the pool is run on
PoolConfigs ==
    { (<<"A">> :> Task(<<"e">>, <<Static(<<"x">>), Range(1, 2, 1, <<>>)>>))
        @@ (<<"B">> :> Task(<<"e">>, <<Choice(<<a, b>>)>>)),
      (<<"A">> :> Task(<<"e">>, <<Choice(<<a, b>>)>>)),
      (<<"A">> :> Task(<<"e">>, <<Static(<<"x">>)>>)),
      (<<"A">> :> Task(<<"e">>, <<Choice(<<>>)>>)),
      (<<"A">> :> Task(<<"e">>, <<Range(0, 1, 0, <<>>)>>)),
      (<<"A">> :> Task(<<"e">>, <<Range(I32Max - 1, I32Max, 1, <<>>)>>)) }

\* The command line: --num-threads absent (the default depends on the machine) or
\* given (the machine's CPU count is then not used)
Opts ==
    {<<[num_threads |-> <<>>, output |-> o], c>> : o \in BOOLEAN, c \in 1..MaxCpus}
    \cup {<<[num_threads |-> <<k>>, output |-> o], MaxCpus>> :
            o \in BOOLEAN, k \in 0..MaxThreads}

InitRest ==
    /\ main = "start"
    /\ tasks = <<>>
    /\ n = 0
    /\ handles = 0
    /\ joined = 0
    /\ wpc = [w \in Workers |-> "idle"]
    /\ wtask = [w \in Workers |-> <<>>]
    /\ tasksLock = 0
    /\ outLock = 0
    /\ outPoisoned = FALSE
    /\ child = [w \in Workers |-> "none"]
    /\ buf = <<>>
    /\ file = <<>>
    /\ popped = <<>>
    /\ failed = {}
    /\ built = <<>>
    /\ pending = <<>>
    /\ written = <<>>

\* Some range of the configuration ends within one step of i32::MAX: the only
\* case in which `c += *step` overflows and the build profile is consulted
ReachesI32Max(cfg) ==
    \E k \in DOMAIN cfg : \E i \in DOMAIN cfg[k].args :
        /\ cfg[k].args[i].type = "Range"
        /\ cfg[k].args[i].step > 0
        /\ cfg[k].args[i].to > I32Max - cfg[k].args[i].step

\* Either build profile where the profile makes a difference, one otherwise
Init ==
    /\ config \in PoolConfigs
    /\ \E oc \in Opts : opt = oc[1] /\ num_cpus = oc[2]
    /\ overflow_checks \in (IF ReachesI32Max(config) THEN BOOLEAN ELSE {FALSE})
    /\ InitRest

\* The tasks the expansion is applied to: every one-argument task over a grid of
\* ranges, over ranges next to the ends of i32 and over short choice lists, and
\* every task of at most MaxArgs arguments over CoreArgs
GridRanges ==
    {Range(f, t, st, pre) : f \in (-1)..RangeHi, t \in (-1)..RangeHi,
                            st \in (-1)..MaxStep, pre \in {<<>>, <<(<<"p">>)>>}}

EdgeRanges ==
    {Range(I32Max - d, I32Max - e, st, <<>>) : d \in 0..2, e \in 0..2, st \in 1..MaxStep}
    \cup {Range(I32Min + d, I32Min + e, -1, <<>>) : d \in 0..2, e \in 0..2}

Choices == {Choice(vs) : vs \in UNION {[1..k -> {a, b}] : k \in 0..2}}

CoreArgs ==
    { Static(<<"x">>), Static(<<"-", "v">>),
      Choice(<<>>), Choice(<<a, b>>),
      Range(1, 3, 1, <<>>), Range(0, 10, 3, <<(<<"p">>)>>), Range(2, 1, 1, <<>>),
      Range(0, 1, 0, <<>>), Range(I32Max - 1, I32Max, 1, <<>>),
      Range(I32Min + 1, I32Min + 2, -1, <<>>) }

ExpandTasks ==
    {Task(<<"e">>, <<arg>>) : arg \in GridRanges \cup EdgeRanges \cup Choices}
    \cup {Task(<<"e">>, args) : args \in UNION {[1..k -> CoreArgs] : k \in 0..MaxArgs}}

\* The expansion alone: one task, expanded under either build profile
InitExpand ==
    /\ \E t \in ExpandTasks : config = (<<"t">> :> t)
    /\ opt = [num_threads |-> <<>>, output |-> FALSE]
    /\ num_cpus = MaxCpus
    /\ overflow_checks \in BOOLEAN
    /\ InitRest

NextExpand == BuildQueue

SpecExpand == InitExpand /\ [][NextExpand]_vars

Worker(w) ==
    \/ LockTasks(w) \/ Pop(w) \/ DropLock(w)
    \/ SpawnOk(w) \/ SpawnErr(w) \/ ChildExit(w) \/ WaitOk(w) \/ WaitErr(w)
    \/ LockOutput(w) \/ WriteLine(w) \/ FlushOk(w) \/ FlushErr(w) \/ UnlockOutput(w)

Next ==
    \/ BuildQueue \/ ComputeN \/ OpenOutput \/ OpenOutputFails
    \/ SpawnWorker \/ Join \/ Finish
    \/ \E w \in Workers : Worker(w)

Spec == Init /\ [][Next]_vars

----------------------------------------------------------------------------
(* Properties of the expansion, checked under SpecExpand (one task).       *)

TaskName == CHOOSE k \in DOMAIN config : TRUE
TheTask == config[TaskName]
Returned == main = "queued"
Expanded == main # "start"

\* The argument's cardinality as the data model states it
ArgCardinality(arg) ==
    CASE arg.type = "Static" -> 1
      [] arg.type = "Choice" -> Len(arg.opts)
      [] arg.type = "Range" ->
             IF arg.step > 0 /\ arg.from <= arg.to
             THEN (arg.to - arg.from) \div arg.step + 1
             ELSE 0

RECURSIVE Product(_)
Product(args) == IF args = <<>> THEN 1 ELSE ArgCardinality(Head(args)) * Product(Tail(args))

\* C2: the number of invocations returned by the expansion of a task equals the
\* product of its arguments' cardinalities (Static 1, Choice len(values), Range
\* floor((to-from)/step)+1 when step > 0 and from <= to, else 0).
C2_CountIsProduct == Returned => Len(tasks) = Product(TheTask.args)

\* Reading a decimal token back as a number
DigitVal(ch) == CHOOSE d \in 0..9 : DigitChar(d) = ch

RECURSIVE ParseNeg(_, _)
ParseNeg(chars, acc) ==
    IF chars = <<>> THEN acc ELSE ParseNeg(Tail(chars), acc * 10 - DigitVal(Head(chars)))

ParseInt(chars) ==
    IF Head(chars) = "-" THEN ParseNeg(Tail(chars), 0) ELSE -ParseNeg(chars, 0)

DropPrefix(prefix, token) == SubSeq(token, Len(UnwrapOrEmpty(prefix)) + 1, Len(token))

\* The place of a token in its argument's natural order: the position in the list
\* for a Choice, the number for a Range; a Static has one place
Rank(arg, token) ==
    CASE arg.type = "Static" -> 0
      [] arg.type = "Choice" ->
             CHOOSE j \in 1..Len(arg.opts) :
                 arg.opts[j] = token /\ \A i \in 1..(j - 1) : arg.opts[i] # token
      [] arg.type = "Range" -> ParseInt(DropPrefix(arg.prefix, token))

RankVec(args, argv) == [k \in 1..Len(args) |-> Rank(args[k], argv[k])]

LexLeq(u, v) ==
    \/ u = v
    \/ \E k \in 1..Len(u) : u[k] < v[k] /\ \A j \in 1..(k - 1) : u[j] = v[j]

\* C3: the invocations are returned in the lexicographic order of the cross
\* product: first argument slowest, last fastest, Choice values in list order,
\* Range values in ascending numeric order.
C3_LexOrder ==
    Returned =>
        \A i \in 1..(Len(tasks) - 1) :
            LexLeq(RankVec(TheTask.args, tasks[i].args),
                   RankVec(TheTask.args, tasks[i + 1].args))

\* The values from, from+step, from+2*step, ... that are <= to
RangeValues(r) ==
    LET count == IF r.from <= r.to THEN (r.to - r.from) \div r.step + 1 ELSE 0
    IN  [k \in 1..count |-> r.from + (k - 1) * r.step]

OneRange == Len(TheTask.args) = 1 /\ TheTask.args[1].type = "Range"

\* C4: an integer Range with step > 0 enumerates exactly the values from,
\* from+step, ... that are <= to, and nothing when from > to.
C4_RangeValues ==
    (Expanded /\ OneRange /\ TheTask.args[1].step > 0) =>
        /\ Returned
        /\ [i \in 1..Len(tasks) |-> tasks[i].args]
             = [k \in 1..Len(RangeValues(TheTask.args[1])) |->
                   <<RangeToken(TheTask.args[1].prefix, RangeValues(TheTask.args[1])[k])>>]

AllStatic(args) == \A i \in 1..Len(args) : args[i].type = "Static"

\* C5: a task whose arguments are all Static expands to exactly one invocation,
\* whose argv is the literal values in argument order.
C5_StaticOnly ==
    (Expanded /\ AllStatic(TheTask.args)) =>
        /\ Returned
        /\ Len(tasks) = 1
        /\ tasks[1].args = [i \in 1..Len(TheTask.args) |-> TheTask.args[i].str]

C5_Witness ==
    /\ Returned /\ AllStatic(TheTask.args) /\ Len(TheTask.args) >= 2
    /\ TheTask.args[1].str # TheTask.args[2].str
    /\ Len(tasks) = 1

RECURSIVE JoinWithSpaces(_)
JoinWithSpaces(tokens) ==
    IF tokens = <<>> THEN <<>> ELSE <<" ">> \o Head(tokens) \o JoinWithSpaces(Tail(tokens))

\* C6 as claimed: the display name is the task name followed by every argv token
\* of the invocation, each preceded by one space.
C6_NameAllTokens ==
    Returned => \A i \in 1..Len(tasks) :
                    tasks[i].name = TaskName \o JoinWithSpaces(tasks[i].args)

RECURSIVE VaryingParts(_, _)
\* what the Choice and Range arguments selected: the Choice value, and the Range
\* number without its prefix; a Static argument contributes nothing
VaryingParts(args, argv) ==
    IF args = <<>> THEN <<>>
    ELSE LET arg == Head(args)
             rest == VaryingParts(Tail(args), Tail(argv))
         IN  CASE arg.type = "Static" -> rest
               [] arg.type = "Choice" -> <<Head(argv)>> \o rest
               [] arg.type = "Range" -> <<DropPrefix(arg.prefix, Head(argv))>> \o rest

\* C6 as amended: the display name is the task name followed by the value selected
\* for every Choice and Range argument, each preceded by one space, in argument
\* order; Static tokens and the prefix of a Range token are not part of the name.
C6_NameVaryingParts ==
    Returned => \A i \in 1..Len(tasks) :
                    tasks[i].name
                      = TaskName \o JoinWithSpaces(VaryingParts(TheTask.args, tasks[i].args))

C6_Witness ==
    /\ Returned /\ Len(tasks) >= 2
    /\ \E i, j \in 1..Len(TheTask.args) :
          /\ TheTask.args[i].type = "Static"
          /\ TheTask.args[j].type = "Range" /\ TheTask.args[j].prefix # <<>>

HasNonPositiveStep ==
    \E i \in 1..Len(TheTask.args) :
        /\ TheTask.args[i].type = "Range"
        /\ TheTask.args[i].step <= 0
        /\ TheTask.args[i].from <= TheTask.args[i].to

\* C7: a task with an integer Range of non-positive step and from <= to is rejected
\* when it is expanded: main reports the configuration error and returns; it does
\* not loop, panic or build a queue.
C7_BadStepRejected == (Expanded /\ HasNonPositiveStep) => main = "returned"

\* C17: the expansion is total over the whole i32 range. For every integer Range
\* with step > 0, wherever from and to lie, the enumeration returns, with
\* floor((to - from) / step) + 1 values when from <= to and none otherwise, and
\* no value twice.
C17_TotalOverI32 ==
    (Expanded /\ OneRange /\ TheTask.args[1].step > 0) =>
        /\ Returned
        /\ Len(tasks) = ArgCardinality(TheTask.args[1])
        /\ \A i, j \in 1..Len(tasks) : i # j => tasks[i].args # tasks[j].args

----------------------------------------------------------------------------
(* Properties of the queue and the pool, checked under Spec.               *)

\* The ids of the invocations of the queue as built
Ids == DOMAIN popped

InQueue(id) == Cardinality({i \in DOMAIN tasks : tasks[i].id = id})

Holding(w) == wtask[w] # <<>>

\* C1: every invocation of the queue as built is either still queued or was
\* returned by pop_front exactly once, never both and never twice; no two workers
\* hold the same invocation; and when a run with at least one worker completes,
\* every invocation was popped exactly once.
C1_ExactlyOnce ==
    /\ \A id \in Ids : popped[id] + InQueue(id) = 1
    /\ \A w1, w2 \in Workers :
          (w1 # w2 /\ Holding(w1) /\ Holding(w2)) => wtask[w1][1].id # wtask[w2][1].id
    /\ (main = "done" /\ n >= 1) => \A id \in Ids : popped[id] = 1

C1_Witness ==
    /\ main = "done" /\ n >= 2
    /\ Cardinality(Ids) >= 3
    /\ \A id \in Ids : popped[id] = 1

\* C8: the number of worker threads spawned is min(--num-threads if given, else
\* CPUs / 2 rounded down; number of invocations): never more workers than
\* invocations, and all of them spawned before main starts joining.
C8_PoolSize ==
    LET want == IF opt.num_threads # <<>> THEN opt.num_threads[1] ELSE num_cpus \div 2
        total == Cardinality(Ids)
        spawned == Cardinality({w \in Workers : wpc[w] # "idle"})
    IN  /\ spawned = handles
        /\ handles <= total
        /\ main \in {"sized", "spawning", "joining", "done"} =>
              /\ (want <= total => n = want)
              /\ (want > total => n = total)
              /\ handles <= n
        /\ main \in {"joining", "done"} => handles = n

C8_Witness ==
    /\ main = "done"
    /\ opt.num_threads # <<>> /\ opt.num_threads[1] > Cardinality(Ids)
    /\ Cardinality(Ids) >= 1
    /\ handles = Cardinality(Ids)

\* C9: a worker whose invocation failed to spawn, or whose wait failed, does not
\* end: it goes on to the next queued invocation.
C9_WorkerSurvivesFailure ==
    \A w \in Workers : (Holding(w) /\ wtask[w][1].id \in failed) => wpc[w] # "panicked"

\* C10: a failed invocation does not abort the run: when the process ends, every
\* invocation has been popped, no child is still running and every worker of the
\* pool has ended.
C10_FailureDoesNotAbort ==
    (~Alive /\ failed # {}) =>
        /\ tasks = <<>>
        /\ \A w \in Workers : child[w] # "running"
        /\ \A w \in Workers : wpc[w] \in {"idle", "done", "panicked"}

----------------------------------------------------------------------------
(* Claims about the Result Sink.                                           *)

\* The file cut at its newlines: the complete lines, each with its newline, and
\* the bytes after the last newline
RECURSIVE SplitLines(_, _, _)
SplitLines(s, cur, acc) ==
    IF s = <<>> THEN [lines |-> acc, rest |-> cur]
    ELSE IF Head(s) = "\n"
         THEN SplitLines(Tail(s), <<>>, Append(acc, Append(cur, "\n")))
         ELSE SplitLines(Tail(s), Append(cur, Head(s)), acc)

CompleteLines(s) == SplitLines(s, <<>>, <<>>).lines

PartialLine(s) == SplitLines(s, <<>>, <<>>).rest

\* The display name a result line starts with: the text before ": "
RECURSIVE LineName(_)
LineName(line) ==
    IF Len(line) < 2 THEN line
    ELSE IF line[1] = ":" /\ line[2] = " " THEN <<>>
    ELSE <<line[1]>> \o LineName(Tail(line))

\* A result line as the sink's reader expects it: the display name of an
\* invocation, ": ", a duration and a newline
WellFormedLine(line) ==
    \E i \in DOMAIN built : line = built[i].name \o <<":", " ", "d", "\n">>

\* The run has completed: main returned from its last line
Completed == main = "done"

\* C11: when a run with a Result Sink completes and no spawn or wait failed, the
\* sink holds exactly one line per invocation of the queue as built: as many
\* lines as invocations, every line well formed, and every display name on
\* exactly one line.
C11_OneLinePerInvocation ==
    (Completed /\ opt.output /\ failed = {}) =>
        /\ PartialLine(file) = <<>>
        /\ Len(CompleteLines(file)) = Len(built)
        /\ \A j \in DOMAIN CompleteLines(file) : WellFormedLine(CompleteLines(file)[j])
        /\ \A i \in DOMAIN built :
              Cardinality({j \in DOMAIN CompleteLines(file) :
                              LineName(CompleteLines(file)[j]) = built[i].name}) = 1

\* p is the beginning of a well-formed result line
RECURSIVE IsPrefix(_, _)
IsPrefix(pre, s) ==
    \/ pre = <<>>
    \/ /\ s # <<>>
       /\ Head(pre) = Head(s)
       /\ IsPrefix(Tail(pre), Tail(s))

BeginsALine(pre) ==
    pre = <<>> \/ \E i \in DOMAIN built : IsPrefix(pre, built[i].name \o <<":", " ", "d", "\n">>)

\* The destination, cut as sp, holds complete result lines and nothing else
OnlyCompleteLines(sp) ==
    /\ sp.rest = <<>>
    /\ \A j \in DOMAIN sp.lines : WellFormedLine(sp.lines[j])

\* The bytes of two submissions are never mixed within a line: every line is
\* one submission's line, and what follows the last newline begins one
NoInterleaving(sp) ==
    /\ \A j \in DOMAIN sp.lines : WellFormedLine(sp.lines[j])
    /\ BeginsALine(sp.rest)

----------------------------------------------------------------------------
(* Claims about progress and termination of the pool.                      *)

\* The thread of worker w has ended, by leaving its loop or by a panic
Ended(w) == wpc[w] \in {"done", "panicked"}

\* C13: a child that does not exit blocks only the worker that spawned it. Each
\* worker in wait is waiting for its own child, and in a pool of at least two
\* workers, whenever a worker is waiting for a child while invocations are still
\* queued, some other worker's thread is alive to pop and run them.
C13_OthersKeepGoing ==
    \A w \in Workers :
        wpc[w] = "wait" =>
            /\ child[w] # "none"
            /\ (Alive /\ n >= 2 /\ tasks # <<>>) =>
                  \E v \in 1..n : v # w /\ ~Ended(v)

\* C14: a worker that has left its loop saw the queue empty, and holds no
\* invocation, no lock and no child; and once the pool has been started the
\* process ends only by main completing the run, after every worker's thread
\* has ended.
C14_RunCompletes ==
    /\ \A w \in Workers :
          wpc[w] = "done" =>
              /\ tasks = <<>>
              /\ ~Holding(w) /\ child[w] = "none"
              /\ tasksLock # w /\ outLock # w
    /\ (handles > 0 /\ ~Alive) =>
          /\ Completed
          /\ \A w \in 1..handles : Ended(w)

----------------------------------------------------------------------------
(* Claims about the order of the result lines.                             *)

SeqRange(s) == {s[i] : i \in DOMAIN s}

\* The result lines of the invocations ids, one after the other
RECURSIVE LinesOf(_)
LinesOf(ids) ==
    IF ids = <<>> THEN <<>>
    ELSE built[Head(ids)].name \o <<":", " ", "d", "\n">> \o LinesOf(Tail(ids))

\* C15 as stated: lines are appended in the order in which child.wait()
\* returned. Of two results waiting to be submitted, the one whose wait returned
\* later is never written while the earlier one is still unwritten.
C15_CompletionOrder ==
    \A i, j \in DOMAIN pending :
        (i < j /\ pending[j] \in SeqRange(written)) => pending[i] \in SeqRange(written)

\* C15, amended: lines are appended in the order in which the workers write
\* under the sink lock, each after its own wait has returned: the bytes handed to
\* the sink are the result lines in that order, and a worker writes only while
\* it holds the lock and after its wait returned.
C15_LockOrder ==
    /\ file \o buf = LinesOf(written)
    /\ \A w \in Workers :
          wpc[w] \in {"write", "flush"} =>
              /\ outLock = w
              /\ wtask[w][1].id \in SeqRange(pending)
    /\ SeqRange(written) \subseteq DOMAIN built

\* Both workers are in the output section, two lines were written, and the
\* worker whose wait returned second wrote first
C15_Witness ==
    /\ n = 2 /\ Len(pending) = 2
    /\ Len(CompleteLines(file)) >= 2
    /\ pending[2] \in SeqRange(written)
    /\ pending[1] \notin SeqRange(written)

----------------------------------------------------------------------------
(* Claims about the Work Queue, the locks and the children.                *)

\* How many pops have returned an invocation
PopCount == Len(built) - Len(tasks)

\* C16: the Work Queue is a FIFO that only shrinks. Its contents are always the
\* suffix of the queue as built that starts after the invocations popped so far;
\* the invocations popped so far are the first PopCount ones of the queue as
\* built, each popped once (the k-th pop returned the k-th element); and what a
\* worker holds is an element of the queue as built, unchanged.
C16_QueueIsSuffix ==
    Expanded =>
        /\ Len(tasks) <= Len(built)
        /\ tasks = SubSeq(built, PopCount + 1, Len(built))
        /\ \A id \in DOMAIN built : popped[id] = (IF id <= PopCount THEN 1 ELSE 0)
        /\ \A w \in Workers :
              Holding(w) =>
                  /\ wtask[w][1].id \in 1..PopCount
                  /\ wtask[w][1] = built[wtask[w][1].id]

\* Two workers each hold an invocation, and part of the queue is still waiting
C16_Witness ==
    /\ PopCount >= 2 /\ tasks # <<>>
    /\ \A w \in 1..2 : Holding(w)

\* C18: whenever the run completes with no spawn or wait failure, the Work Queue
\* is empty and every invocation of the queue as built was popped and run; for
\* every --num-threads value and every CPU count, a non-empty queue gets a pool
\* of at least one worker.
C18_CompletedRunDrainsQueue ==
    /\ (Completed /\ failed = {}) =>
          /\ tasks = <<>>
          /\ \A id \in DOMAIN built : popped[id] = 1
    /\ (main \in {"sized", "spawning", "joining", "done"} /\ built # <<>>) => n >= 1

\* C19: lock discipline. The queue lock is held only for the pop and the sink
\* lock only for one write and flush; no worker holds both, and a worker that
\* spawns or waits for a child holds neither. Hence no worker is blocked for
\* good on a lock: while the process runs, the holder of a lock another worker
\* is waiting for can always take its next step under the lock.
C19_LockDiscipline ==
    /\ \A w \in Workers :
          /\ tasksLock = w => wpc[w] \in {"pop", "drop"}
          /\ outLock = w => wpc[w] \in {"write", "flush", "unlock"}
          /\ ~(tasksLock = w /\ outLock = w)
          /\ wpc[w] \in {"spawn", "wait"} => (tasksLock # w /\ outLock # w)
          /\ wpc[w] = "flush" => buf = built[wtask[w][1].id].name \o <<":", " ", "d", "\n">>
    /\ \A w \in Workers :
          (Alive /\ wpc[w] = "lock" /\ tasksLock # 0) =>
              ENABLED (Pop(tasksLock) \/ DropLock(tasksLock))
    /\ \A w \in Workers :
          (Alive /\ wpc[w] = "outlock" /\ outLock # 0) =>
              ENABLED (WriteLine(outLock) \/ FlushOk(outLock) \/ UnlockOutput(outLock))

\* One worker is inside the output section while the other is blocked on the
\* sink lock
C19_Witness ==
    /\ Alive
    /\ \E w, v \in Workers :
          /\ w # v
          /\ outLock = w /\ wpc[w] = "flush"
          /\ wpc[v] = "outlock"

\* The workers whose child was spawned and has not exited
Running == {w \in Workers : child[w] = "running"}

====
